---- MODULE Spec2Model ----
(***************************************************************************)
(* Model of scripts/ingest_crypto.py: one process run of the ingestion     *)
(* pipeline (fetch with retry, then load into the warehouse), with the     *)
(* module-level configuration, the HTTP attempts, the warehouse calls and  *)
(* the process exit as state.                                              *)
(***************************************************************************)
EXTENDS Integers, Sequences, FiniteSets, TLC

VARIABLES
    KEY_PATH,       \* os.getenv("SNOWFLAKE_PRIVATE_KEY_PATH")
    PASSWORD,       \* os.getenv("SNOWFLAKE_PASSWORD")
    files,          \* paths that exist on the local file system
    pc,             \* position of the single thread of control
    attempt_number, \* tenacity's retry_state.attempt_number
    http_log,       \* one entry per requests.get issued, in order
    waits,          \* the sleeps tenacity inserted between attempts, in order
    market_data,    \* value returned by fetch_crypto_data (<<>> before)
    auth_log,       \* branches of get_snowflake_conn taken (lines 39 / 64)
    conn_modes,     \* credential kind of each snowflake.connector.connect call
    wh,             \* calls made on the connection and cursor, in order
    insert_args,    \* the seq_of_parameters of each executemany call
    exc,            \* the exception in flight ("none" when there is none)
    error_log,      \* messages written by logger.error
    exit_code       \* process exit status (-1 while running)

vars == <<KEY_PATH, PASSWORD, files, pc, attempt_number, http_log, waits,
          market_data, auth_log, conn_modes, wh, insert_args, exc, error_log,
          exit_code>>

----------------------------------------------------------------------------
(* Bounds of the model *)

MaxRecords == 2

Records == {"btc", "eth"}

----------------------------------------------------------------------------
(* Configuration values *)

NoneVal == "<None>"

KeyFile == "/keys/rsa_key.p8"

Secret == "s3cret"

Truthy(v) == v # NoneVal /\ v # ""

PathExists(p) == p \in files

----------------------------------------------------------------------------
(* Retry policy of the decorator on fetch_crypto_data *)

MaxAttempts == 5

WaitMultiplier == 1

WaitMin == 2

WaitMax == 10

ExpBase == 2

Max2(a, b) == IF a >= b THEN a ELSE b

Min2(a, b) == IF a <= b THEN a ELSE b

RECURSIVE Pow(_, _)
Pow(b, e) == IF e <= 0 THEN 1 ELSE b * Pow(b, e - 1)

stop_after_attempt_late(n) == n > MaxAttempts

stop_after_attempt(n) == n >= MaxAttempts

wait_exponential_from_two(n) ==
    Max2(Max2(0, WaitMin), Min2(WaitMultiplier * Pow(ExpBase, n), WaitMax))

wait_exponential(n) ==
    Max2(Max2(0, WaitMin), Min2(WaitMultiplier * Pow(ExpBase, n - 1), WaitMax))

----------------------------------------------------------------------------
(* HTTP responses the market-data API can give to one GET *)

Batches == UNION {[1..n -> Records] : n \in 0..MaxRecords}

FailureKinds == {"ConnectionError", "Timeout", "HTTPError"}

Responses ==
    [status : FailureKinds, data : {<<>>}] \cup [status : {"2xx"}, data : Batches]

\* Body of fetch_crypto_data for one attempt that got response r:
\* the exception it raises ("none" when it returns) and the value returned.
fetch_body_no_empty_check(r) ==
    IF r.status \in FailureKinds
    THEN [raised |-> r.status, value |-> <<>>]
    ELSE [raised |-> "none", value |-> r.data]

fetch_body(r) ==
    IF r.status \in FailureKinds
    THEN [raised |-> r.status, value |-> <<>>]
    ELSE IF r.data = <<>>
         THEN [raised |-> "ValueError", value |-> <<>>]
         ELSE [raised |-> "none", value |-> r.data]

----------------------------------------------------------------------------
(* Credential selection of get_snowflake_conn *)

NoAuthError == "ValueError: No valid authentication found"

select_auth_password_first ==
    IF Truthy(PASSWORD) THEN "password"
    ELSE IF Truthy(KEY_PATH) /\ PathExists(KEY_PATH) THEN "keypair"
    ELSE "error"

select_auth ==
    IF Truthy(KEY_PATH) /\ PathExists(KEY_PATH) THEN "keypair"
    ELSE IF Truthy(PASSWORD) THEN "password"
    ELSE "error"

----------------------------------------------------------------------------
(* Rows handed to executemany *)

JsonDumps(record) == <<"json", record>>

Reverse(s) == [i \in 1..Len(s) |-> s[Len(s) + 1 - i]]

records_to_insert_reversed(data) ==
    [i \in 1..Len(data) |-> <<JsonDumps(Reverse(data)[i])>>]

records_to_insert(data) == [i \in 1..Len(data) |-> <<JsonDumps(data[i])>>]

Call(op, ok) == [op |-> op, ok |-> ok]

----------------------------------------------------------------------------

Init ==
    /\ KEY_PATH \in {NoneVal, "", KeyFile}
    /\ PASSWORD \in {NoneVal, "", Secret}
    /\ files \in SUBSET {KeyFile}
    /\ pc = "fetch"
    /\ attempt_number = 1
    /\ http_log = <<>>
    /\ waits = <<>>
    /\ market_data = <<>>
    /\ auth_log = <<>>
    /\ conn_modes = <<>>
    /\ wh = <<>>
    /\ insert_args = <<>>
    /\ exc = "none"
    /\ error_log = <<>>
    /\ exit_code = -1

config == <<KEY_PATH, PASSWORD, files>>

fetch_vars == <<attempt_number, http_log, waits, market_data>>

load_vars == <<auth_log, conn_modes, wh, insert_args>>

exit_vars == <<error_log, exit_code>>

\* One attempt of fetch_crypto_data under the retry decorator.
FetchAttempt ==
    /\ pc = "fetch"
    /\ \E r \in Responses :
        LET out == fetch_body(r) IN
        /\ http_log' = Append(http_log, r)
        /\ IF out.raised = "none"
           THEN /\ market_data' = out.value
                /\ pc' = "load"
                /\ exc' = "none"
           ELSE /\ market_data' = market_data
                /\ IF stop_after_attempt(attempt_number)
                   THEN pc' = "except" /\ exc' = "RetryError"
                   ELSE pc' = "sleep" /\ exc' = "none"
    /\ UNCHANGED <<config, attempt_number, waits, load_vars, exit_vars>>

\* tenacity sleeps, then starts the next attempt.
RetrySleep ==
    /\ pc = "sleep"
    /\ waits' = Append(waits, wait_exponential(attempt_number))
    /\ attempt_number' = attempt_number + 1
    /\ pc' = "fetch"
    /\ UNCHANGED <<config, http_log, market_data, load_vars, exc, exit_vars>>

\* get_snowflake_conn: the if / elif / else on the configured credentials.
SelectAuth ==
    /\ pc = "load"
    /\ LET mode == select_auth IN
        IF mode = "error"
        THEN /\ exc' = NoAuthError
             /\ pc' = "except"
             /\ auth_log' = auth_log
        ELSE /\ auth_log' = Append(auth_log, mode)
             /\ pc' = IF mode = "keypair" THEN "load_key" ELSE "connect"
             /\ exc' = "none"
    /\ UNCHANGED <<config, fetch_vars, conn_modes, wh, insert_args, exit_vars>>

\* Lines 40-51: read the key file and decode it; the file may not hold a key.
LoadKey ==
    /\ pc = "load_key"
    /\ \E ok \in BOOLEAN :
        IF ok THEN pc' = "connect" /\ exc' = "none"
        ELSE pc' = "except" /\ exc' = "KeyLoadError"
    /\ UNCHANGED <<config, fetch_vars, load_vars, exit_vars>>

\* snowflake.connector.connect with the selected credential.
Connect ==
    /\ pc = "connect"
    /\ conn_modes' = Append(conn_modes, auth_log[Len(auth_log)])
    /\ \E ok \in BOOLEAN :
        /\ wh' = Append(wh, Call("connect", ok))
        /\ IF ok THEN pc' = "cursor" /\ exc' = "none"
           ELSE pc' = "except" /\ exc' = "ConnectError"
    /\ UNCHANGED <<config, fetch_vars, auth_log, insert_args, exit_vars>>

\* Line 106: conn.cursor(), before the try block.
OpenCursor ==
    /\ pc = "cursor"
    /\ \E ok \in BOOLEAN :
        /\ wh' = Append(wh, Call("cursor", ok))
        /\ IF ok THEN pc' = "create" /\ exc' = "none"
           ELSE pc' = "except" /\ exc' = "CursorError"
    /\ UNCHANGED <<config, fetch_vars, auth_log, conn_modes, insert_args, exit_vars>>

\* Lines 109-115: CREATE TABLE IF NOT EXISTS, inside the try block.
CreateTable ==
    /\ pc = "create"
    /\ \E ok \in BOOLEAN :
        /\ wh' = Append(wh, Call("create_table", ok))
        /\ IF ok THEN pc' = "insert" /\ exc' = "none"
           ELSE pc' = "finally" /\ exc' = "CreateError"
    /\ UNCHANGED <<config, fetch_vars, auth_log, conn_modes, insert_args, exit_vars>>

\* Lines 124-125: cursor.executemany(insert_query, records_to_insert).
InsertRows ==
    /\ pc = "insert"
    /\ insert_args' = Append(insert_args, records_to_insert(market_data))
    /\ \E ok \in BOOLEAN :
        /\ wh' = Append(wh, Call("executemany", ok))
        /\ IF ok THEN pc' = "commit" /\ exc' = "none"
           ELSE pc' = "finally" /\ exc' = "InsertError"
    /\ UNCHANGED <<config, fetch_vars, auth_log, conn_modes, exit_vars>>

\* Line 126: conn.commit(); the try block ends after it.
Commit ==
    /\ pc = "commit"
    /\ \E ok \in BOOLEAN :
        /\ wh' = Append(wh, Call("commit", ok))
        /\ exc' = IF ok THEN "none" ELSE "CommitError"
    /\ pc' = "finally"
    /\ UNCHANGED <<config, fetch_vars, auth_log, conn_modes, insert_args, exit_vars>>

\* Line 130: cursor.close(), first statement of the finally block.  When it
\* raises, the finally block is left and its exception replaces the pending one.
CloseCursor ==
    /\ pc = "finally"
    /\ \E ok \in BOOLEAN :
        /\ wh' = Append(wh, Call("cursor_close", ok))
        /\ IF ok THEN pc' = "finally_conn" /\ exc' = exc
           ELSE pc' = "except" /\ exc' = "CursorCloseError"
    /\ UNCHANGED <<config, fetch_vars, auth_log, conn_modes, insert_args, exit_vars>>

\* Line 131: conn.close(); afterwards the pending exception, if any, is
\* re-raised to the caller.
CloseConn ==
    /\ pc = "finally_conn"
    /\ wh' = Append(wh, Call("conn_close", TRUE))
    /\ pc' = IF exc = "none" THEN "end" ELSE "except"
    /\ UNCHANGED <<config, fetch_vars, auth_log, conn_modes, insert_args, exc, exit_vars>>

\* Lines 137-139: the top-level handler logs the error and calls exit(1).
ExceptHandlerExitZero ==
    /\ pc = "except"
    /\ error_log' = Append(error_log, exc)
    /\ exit_code' = 0
    /\ pc' = "exited"
    /\ UNCHANGED <<config, fetch_vars, load_vars, exc>>

ExceptHandler ==
    /\ pc = "except"
    /\ error_log' = Append(error_log, exc)
    /\ exit_code' = 1
    /\ pc' = "exited"
    /\ UNCHANGED <<config, fetch_vars, load_vars, exc>>

\* The script runs off its end: the interpreter exits with status 0.
NormalExit ==
    /\ pc = "end"
    /\ exit_code' = 0
    /\ pc' = "exited"
    /\ UNCHANGED <<config, fetch_vars, load_vars, exc, error_log>>

Next ==
    \/ FetchAttempt
    \/ RetrySleep
    \/ SelectAuth
    \/ LoadKey
    \/ Connect
    \/ OpenCursor
    \/ CreateTable
    \/ InsertRows
    \/ Commit
    \/ CloseCursor
    \/ CloseConn
    \/ ExceptHandler
    \/ NormalExit

Spec == Init /\ [][Next]_vars

\* The run is one sequential thread: whenever a step is possible it is taken.
FairSpec == Spec /\ WF_vars(Next)

----------------------------------------------------------------------------
(* Vocabulary of the properties *)

KeyUsable == KEY_PATH \notin {NoneVal, ""} /\ KEY_PATH \in files

PasswordSet == PASSWORD \notin {NoneVal, ""}

Count(op, ok) == Cardinality({i \in 1..Len(wh) : wh[i] = Call(op, ok)})

Calls(op) == Count(op, TRUE) + Count(op, FALSE)

AllOk == \A i \in 1..Len(wh) : wh[i].ok

IsPrefix(s, t) == Len(s) <= Len(t) /\ \A i \in 1..Len(s) : s[i] = t[i]

NonDecreasing(s) == \A i \in 1..Len(s) : \A j \in i..Len(s) : s[i] <= s[j]

Failed(r) == r.status \in {"ConnectionError", "Timeout", "HTTPError"}

EmptyOk(r) == r.status = "2xx" /\ Len(r.data) = 0

Returned(r) == r.status = "2xx" /\ Len(r.data) >= 1

Last(s) == s[Len(s)]

Terminated == pc = "exited"

LoadCalls ==
    <<Call("connect", TRUE), Call("cursor", TRUE), Call("create_table", TRUE),
      Call("executemany", TRUE), Call("commit", TRUE),
      Call("cursor_close", TRUE), Call("conn_close", TRUE)>>

----------------------------------------------------------------------------
(* C1: with neither a usable private-key file nor a password configured,   *)
(* the run fails with the configuration error before any network call: no  *)
(* HTTP GET is issued and no warehouse connection is attempted.            *)
C1_NoCredentialsNoNetwork ==
    (~KeyUsable /\ ~PasswordSet) =>
        /\ http_log = <<>>
        /\ conn_modes = <<>>
        /\ Terminated => error_log = <<NoAuthError>>

(* C2: get_snowflake_conn selects exactly one outcome by priority: key     *)
(* pair when the key path is configured and the file exists (also when a   *)
(* password is configured), else password when one is configured, else the *)
(* configuration error with no connection attempt; never both modes.       *)
C2_ExactlyOneAuthPath ==
    /\ Len(auth_log) <= 1
    /\ Len(conn_modes) <= 1
    /\ IsPrefix(conn_modes, auth_log)
    /\ KeyUsable =>
            /\ auth_log \in {<<>>, <<"keypair">>}
            /\ exc # NoAuthError
    /\ (~KeyUsable /\ PasswordSet) =>
            /\ auth_log \in {<<>>, <<"password">>}
            /\ exc # NoAuthError
    /\ (~KeyUsable /\ ~PasswordSet) =>
            /\ auth_log = <<>>
            /\ conn_modes = <<>>
            /\ wh = <<>>
    /\ (market_data # <<>> /\ pc # "load") =>
            IF KeyUsable \/ PasswordSet THEN Len(auth_log) = 1
            ELSE exc = NoAuthError

C2_Witness ==
    /\ KeyUsable
    /\ PasswordSet
    /\ conn_modes = <<"keypair">>
    /\ Call("connect", TRUE) = wh[1]

(* C3: a 2xx response with zero records is surfaced from that same         *)
(* attempt: no further HTTP attempt is made after it.                      *)
C3_EmptyResponseNotRetried ==
    \A i \in 1..Len(http_log) : EmptyOk(http_log[i]) => i = Len(http_log)

(* C4: at most 5 HTTP attempts are issued; an attempt that raised is       *)
(* followed by another only while fewer than 5 were made, an attempt that  *)
(* returned a batch ends the fetch, and after a 5th failed attempt the     *)
(* failure is surfaced to the caller instead of retrying.                  *)
C4_AtMostFiveAttempts ==
    /\ Len(http_log) <= 5
    /\ \A i \in 1..Len(http_log) : Returned(http_log[i]) => i = Len(http_log)
    /\ pc \in {"fetch", "sleep"} => Len(http_log) < 5
    /\ pc = "sleep" => ~Returned(Last(http_log))
    /\ (Len(http_log) >= 1 /\ Returned(Last(http_log))) =>
            /\ pc \notin {"fetch", "sleep"}
            /\ market_data = Last(http_log).data
            /\ exc # "RetryError"
    /\ (Len(http_log) = 5 /\ Failed(Last(http_log))) =>
            /\ pc \in {"except", "exited"}
            /\ exc = "RetryError"
            /\ wh = <<>>
    /\ attempt_number = Len(waits) + 1
    /\ Len(http_log) \in {Len(waits), Len(waits) + 1}

C4_Witness ==
    /\ Terminated
    /\ Len(http_log) = 5
    /\ \A i \in 1..5 : Failed(http_log[i])
    /\ error_log = <<"RetryError">>

(* C5 as stated: the waits after failed attempts 1, 2, 3, 4 are 2, 4, 8,   *)
(* 10; the sequence is non-decreasing and no wait exceeds 10.              *)
C5_WaitsDoubleFromTwo ==
    /\ IsPrefix(waits, <<2, 4, 8, 10>>)
    /\ NonDecreasing(waits)
    /\ \A i \in 1..Len(waits) : waits[i] <= 10

(* C5 amended: the wait after failed attempt n is 2^(n-1) raised to the    *)
(* minimum 2 and capped at 10, so the waits after failed attempts 1, 2, 3, *)
(* 4 are 2, 2, 4, 8; the sequence is non-decreasing and no wait exceeds 10.*)
C5_WaitSchedule ==
    /\ IsPrefix(waits, <<2, 2, 4, 8>>)
    /\ NonDecreasing(waits)
    /\ \A i \in 1..Len(waits) : waits[i] >= 2 /\ waits[i] <= 10

C5_Witness == Len(waits) = 4 /\ Len(http_log) = 5

(* C6: in a load where no step fails, exactly one create-table statement,  *)
(* then exactly one multi-row insert whose parameter rows are the N        *)
(* records in batch order, then exactly one commit are issued, in that     *)
(* order, and only afterwards the cursor and the connection are closed.    *)
C6_LoadSequence ==
    /\ AllOk => IsPrefix(wh, LoadCalls)
    /\ (AllOk /\ Len(wh) >= 4) =>
            /\ Len(insert_args) = 1
            /\ Len(insert_args[1]) = Len(market_data)
            /\ \A i \in 1..Len(market_data) :
                    insert_args[1][i] = <<<<"json", market_data[i]>>>>
    /\ (AllOk /\ Len(wh) < 4) => insert_args = <<>>
    /\ (pc = "end" \/ (Terminated /\ exit_code = 0)) =>
            /\ wh = LoadCalls
            /\ Calls("create_table") = 1
            /\ Calls("executemany") = 1
            /\ Calls("commit") = 1

C6_Witness ==
    /\ pc = "end"
    /\ Len(market_data) = 2
    /\ market_data[1] # market_data[2]
    /\ wh = LoadCalls

(* C7: when the multi-row insert raises, the cursor is closed exactly      *)
(* once, the connection is closed exactly once, no commit is issued in     *)
(* that run, and the insert's error is propagated to the caller.           *)
C7_InsertFailureCleanup ==
    (Terminated /\ Count("executemany", FALSE) >= 1) =>
        /\ Count("cursor_close", TRUE) = 1
        /\ Calls("cursor_close") = 1
        /\ Calls("conn_close") = 1
        /\ Calls("commit") = 0
        /\ error_log = <<"InsertError">>

(* C8: the process exits with code 0 exactly when both the fetch stage and *)
(* the load stage complete without raising, and with code 1 when any step  *)
(* raises, with exactly one error message logged before the exit; every    *)
(* run reaches one of these two exits.                                     *)
RanClean ==
    /\ Len(http_log) >= 1
    /\ Returned(Last(http_log))
    /\ Len(auth_log) = 1
    /\ wh = LoadCalls

C8_ExitCodes ==
    /\ [](Terminated =>
            /\ exit_code \in {0, 1}
            /\ exit_code = 0 <=> RanClean
            /\ exit_code = 0 => error_log = <<>>
            /\ exit_code = 1 => (Len(error_log) = 1 /\ error_log[1] # "none"))
    /\ [](~Terminated => (exit_code = -1 /\ error_log = <<>>))
    /\ <>Terminated

C8_Witness ==
    /\ Terminated
    /\ exit_code = 1
    /\ error_log = <<"CommitError">>
    /\ Calls("conn_close") = 1

(* C9: whenever the load stage ends after the warehouse connection was     *)
(* opened, the connection and every cursor obtained from it have been      *)
(* closed, for a failure at any warehouse step after connecting (cursor    *)
(* creation, create-table, insert, commit, cursor close).                  *)
C9_ConnectionAlwaysReleased ==
    (pc \in {"end", "except", "exited"} /\ Count("connect", TRUE) >= 1) =>
        /\ Count("conn_close", TRUE) = 1
        /\ Count("cursor", TRUE) = Count("cursor_close", TRUE)

(* C10: fetch_crypto_data never returns an empty batch and the load stage  *)
(* starts only after fetch returned: a connection is opened and rows are   *)
(* inserted only if some attempt returned 2xx with at least one record, so *)
(* the batch loaded has N >= 1 records and a run whose fetch fails inserts *)
(* no rows.                                                                *)
C10_LoadOnlyAfterNonEmptyFetch ==
    /\ (pc \notin {"fetch", "sleep"} /\ exc # "RetryError") =>
            /\ Len(market_data) >= 1
            /\ \E i \in 1..Len(http_log) :
                    Returned(http_log[i]) /\ http_log[i].data = market_data
    /\ (auth_log # <<>> \/ conn_modes # <<>> \/ wh # <<>> \/ insert_args # <<>>) =>
            /\ Len(market_data) >= 1
            /\ \E i \in 1..Len(http_log) : Returned(http_log[i])
    /\ \A k \in 1..Len(insert_args) : Len(insert_args[k]) >= 1
    /\ (\A i \in 1..Len(http_log) : ~Returned(http_log[i])) =>
            /\ market_data = <<>>
            /\ conn_modes = <<>>
            /\ wh = <<>>
            /\ insert_args = <<>>

C10_Witness ==
    /\ Len(http_log) = 3
    /\ Failed(http_log[1])
    /\ EmptyOk(http_log[2])
    /\ Len(insert_args) = 1
    /\ Len(insert_args[1]) = 2

====
